---------------------------- MODULE Spec2Model ----------------------------
(***************************************************************************)
(* Model of the two relay scripts of examples/:                            *)
(*   relay_control.py  - the cycle driver   (prog = "control")             *)
(*   relay_switch.py   - the one-shot driver (prog = "switch")             *)
(* Each script is a sequential program; pc is the statement it is about to *)
(* execute.  The GPIO driver (Jetson.GPIO) is an external collaborator:    *)
(* its calls are recorded in `trace`, and a call may raise RuntimeError.   *)
(* SIGINT is delivered by the environment at any statement and surfaces as *)
(* a KeyboardInterrupt raised at that statement.                           *)
(***************************************************************************)
EXTENDS Integers, Sequences, FiniteSets, TLC

\* ------------------------------------------------------------------ bounds
\* Largest --cycles value drawn, and cap on the iterations of an unbounded loop.
MaxIter == 2

\* ------------------------------------------------------------------ inputs
Durations == {-1, 0, 1}          \* a float argument: negative, zero, positive
CycleArgs == -1 .. MaxIter       \* --cycles: negative, 0 (infinite), positive
States    == {"on", "off"}       \* choices=['on', 'off']

VARIABLES
    prog,          \* which script runs
    argsValid,     \* does the command line satisfy the parser
    active_high,   \* args.active_high
    cycles,        \* args.cycles          (control)
    initial_state, \* args.initial_state   (control)
    on_time,       \* args.on_time         (control)
    off_time,      \* args.off_time        (control)
    state,         \* args.state           (switch)
    hold_time,     \* args.hold_time       (switch)
    pc,            \* statement about to execute
    RELAY_ON,      \* local RELAY_ON
    RELAY_OFF,     \* local RELAY_OFF
    cycle_count,   \* local cycle_count
    pending,       \* exception propagating out of main ("none" if none)
    exitCode,      \* process exit status (-1 while running)
    trace,         \* calls the driver and the sleep primitive completed
    intrAt         \* history: the statements at which SIGINT was delivered

args == <<prog, argsValid, active_high, cycles, initial_state, on_time,
          off_time, state, hold_time>>
vars == <<prog, argsValid, active_high, cycles, initial_state, on_time,
          off_time, state, hold_time, pc, RELAY_ON, RELAY_OFF, cycle_count,
          pending, exitCode, trace, intrAt>>

\* ------------------------------------------------------- statement regions
\* relay_control.py
CtlPreTry  == {"parse", "polarity", "setmode", "setup", "banner"}
CtlTry     == {"init_count", "loop", "output_on", "sleep_on", "output_off", "sleep_off", "count"}
CtlExcept  == {"except"}
CtlFinally == {"finally_output", "finally_cleanup"}
\* relay_switch.py
SwPreTry   == {"parse", "polarity", "setmode", "setup"}
SwTry      == {"output", "hold", "sleep_hold", "sleep_forever"}
SwExcept   == {"except"}
SwFinally  == {"finally_cleanup", "finally_print"}

TryPcs     == IF prog = "control" THEN CtlTry ELSE SwTry
ExceptPcs  == IF prog = "control" THEN CtlExcept ELSE SwExcept
FinallyPcs == IF prog = "control" THEN CtlFinally ELSE SwFinally
FinallyEntry == IF prog = "control" THEN "finally_output" ELSE "finally_cleanup"

\* ------------------------------------------------------------- exceptions
\* Variant: `except Exception`, which KeyboardInterrupt does not derive from.
HandlesException(exc) == exc \in {"RuntimeError", "ValueError"}

\* Variant: a bare `except:`, which catches every exception.
HandlesAll(exc) == exc \in {"KeyboardInterrupt", "RuntimeError", "ValueError"}

\* except KeyboardInterrupt: the only handler of either script.
Handles(exc) == exc = "KeyboardInterrupt"

\* Exit status of the interpreter when main() returns or an exception escapes.
ExitStatus(exc) ==
    IF exc = "none" THEN 0
    ELSE IF exc = "SystemExit" THEN 2
    ELSE 1

\* try/except/finally: where control goes when `exc` is raised at statement pc.
Raise(exc) ==
    IF pc \in TryPcs /\ Handles(exc)
    THEN /\ pc' = "except"
         /\ pending' = "none"
         /\ exitCode' = exitCode
    ELSE IF pc \in TryPcs \cup ExceptPcs
    THEN /\ pc' = FinallyEntry
         /\ pending' = exc
         /\ exitCode' = exitCode
    ELSE /\ pc' = "done"
         /\ pending' = exc
         /\ exitCode' = ExitStatus(exc)

\* The statement completes and control moves to `next`.
Goto(next) ==
    /\ pc' = next
    /\ UNCHANGED <<pending, exitCode>>

\* End of the finally block: a pending exception is re-raised, else main returns.
Leave ==
    /\ pc' = "done"
    /\ exitCode' = ExitStatus(pending)
    /\ UNCHANGED pending

\* ---------------------------------------------------------- driver calls
Call(op, level) == [op |-> op, level |-> level, at |-> pc]

\* ------------------------------------------------------------------- Init
Init ==
    /\ prog \in {"control", "switch"}
    /\ argsValid \in BOOLEAN
    /\ active_high \in BOOLEAN
    /\ IF prog = "control"
       THEN /\ cycles \in CycleArgs
            /\ initial_state \in States
            /\ on_time \in Durations
            /\ off_time \in Durations
            /\ state = "off"
            /\ hold_time = 0
       ELSE /\ cycles = 0
            /\ initial_state = "off"
            /\ on_time = 0
            /\ off_time = 0
            /\ state \in States
            /\ hold_time \in Durations
    /\ pc = "parse"
    /\ RELAY_ON = "UNSET"
    /\ RELAY_OFF = "UNSET"
    /\ cycle_count = 0
    /\ pending = "none"
    /\ exitCode = -1
    /\ trace = <<>>
    /\ intrAt = <<>>


\* ------------------------------------------------ relay_control.py: helpers
\* RELAY_ON / RELAY_OFF as assigned from args.active_high.
CtlRelayOn(ah)  == IF ah THEN "HIGH" ELSE "LOW"
\* Variant: the else branch repeats the levels of the if branch.
CtlRelayOffSame(ah) == IF ah THEN "LOW" ELSE "LOW"
CtlRelayOff(ah) == IF ah THEN "LOW" ELSE "HIGH"

\* initial_state = RELAY_ON if args.initial_state == 'on' else RELAY_OFF
CtlInitialLevel == IF initial_state = "on" THEN RELAY_ON ELSE RELAY_OFF

\* Variants of the loop test: one repetition too many; no infinite mode.
LoopCondOffByOne(c, n) == c = 0 \/ n <= c
LoopCondNoInfinite(c, n) == n < c

\* Variant: `args.cycles <= 0` selects the infinite mode.
LoopCondNegInfinite(c, n) == c <= 0 \/ n < c

\* while args.cycles == 0 or cycle_count < args.cycles
LoopCond(c, n) == c = 0 \/ n < c

\* Number of completed GPIO.output calls made by the statement `at`.
WritesAt(tr, at) ==
    Cardinality({i \in DOMAIN tr : tr[i].op = "write" /\ tr[i].at = at})

\* ------------------------------------------------ relay_control.py: actions
\* Variant: the numbering scheme is selected before the arguments are parsed.
CtlParseAfterSetmode ==
    /\ prog = "control" /\ pc = "parse"
    /\ trace' = Append(trace, Call("setmode", "NONE"))
    /\ IF argsValid THEN Goto("polarity") ELSE Raise("SystemExit")
    /\ UNCHANGED <<args, RELAY_ON, RELAY_OFF, cycle_count, intrAt>>

CtlParse ==
    /\ prog = "control" /\ pc = "parse"
    /\ IF argsValid THEN Goto("polarity") ELSE Raise("SystemExit")
    /\ UNCHANGED <<args, RELAY_ON, RELAY_OFF, cycle_count, trace, intrAt>>

CtlPolarity ==
    /\ prog = "control" /\ pc = "polarity"
    /\ RELAY_ON' = CtlRelayOn(active_high)
    /\ RELAY_OFF' = CtlRelayOff(active_high)
    /\ Goto("setmode")
    /\ UNCHANGED <<args, cycle_count, trace, intrAt>>

CtlSetmode ==
    /\ prog = "control" /\ pc = "setmode"
    /\ trace' = Append(trace, Call("setmode", "NONE"))
    /\ Goto("setup")
    /\ UNCHANGED <<args, RELAY_ON, RELAY_OFF, cycle_count, intrAt>>

CtlSetup ==
    /\ prog = "control" /\ pc = "setup"
    /\ \E ok \in BOOLEAN :
          IF ok
          THEN /\ trace' = Append(trace, Call("setup", CtlInitialLevel))
               /\ Goto("banner")
          ELSE /\ trace' = trace
               /\ Raise("RuntimeError")
    /\ UNCHANGED <<args, RELAY_ON, RELAY_OFF, cycle_count, intrAt>>

CtlBanner ==
    /\ prog = "control" /\ pc = "banner"
    /\ Goto("init_count")
    /\ UNCHANGED <<args, RELAY_ON, RELAY_OFF, cycle_count, trace, intrAt>>

CtlInitCount ==
    /\ prog = "control" /\ pc = "init_count"
    /\ cycle_count' = 0
    /\ Goto("loop")
    /\ UNCHANGED <<args, RELAY_ON, RELAY_OFF, trace, intrAt>>

CtlLoop ==
    /\ prog = "control" /\ pc = "loop"
    /\ IF LoopCond(cycles, cycle_count)
       THEN /\ WritesAt(trace, "output_on") < MaxIter
            /\ Goto("output_on")
       ELSE Goto("finally_output")
    /\ UNCHANGED <<args, RELAY_ON, RELAY_OFF, cycle_count, trace, intrAt>>

\* Variant: the first iteration starts from the configured initial level.
CtlOutputOnFromInitial ==
    /\ prog = "control" /\ pc = "output_on"
    /\ \E ok \in BOOLEAN :
          IF ok
          THEN /\ trace' = Append(trace,
                      Call("write", IF WritesAt(trace, "output_on") = 0
                                    THEN CtlInitialLevel ELSE RELAY_ON))
               /\ Goto("sleep_on")
          ELSE /\ trace' = trace
               /\ Raise("RuntimeError")
    /\ UNCHANGED <<args, RELAY_ON, RELAY_OFF, cycle_count, intrAt>>

CtlOutputOn ==
    /\ prog = "control" /\ pc = "output_on"
    /\ \E ok \in BOOLEAN :
          IF ok
          THEN /\ trace' = Append(trace, Call("write", RELAY_ON))
               /\ Goto("sleep_on")
          ELSE /\ trace' = trace
               /\ Raise("RuntimeError")
    /\ UNCHANGED <<args, RELAY_ON, RELAY_OFF, cycle_count, intrAt>>

\* Variant: the Off-write of the iteration is skipped.
CtlSleepOnSkipsOff ==
    /\ prog = "control" /\ pc = "sleep_on"
    /\ IF on_time < 0
       THEN /\ trace' = trace
            /\ Raise("ValueError")
       ELSE /\ trace' = Append(trace, Call("sleep", "NONE"))
            /\ Goto("sleep_off")
    /\ UNCHANGED <<args, RELAY_ON, RELAY_OFF, cycle_count, intrAt>>

CtlSleepOn ==
    /\ prog = "control" /\ pc = "sleep_on"
    /\ IF on_time < 0
       THEN /\ trace' = trace
            /\ Raise("ValueError")
       ELSE /\ trace' = Append(trace, Call("sleep", "NONE"))
            /\ Goto("output_off")
    /\ UNCHANGED <<args, RELAY_ON, RELAY_OFF, cycle_count, intrAt>>

CtlOutputOff ==
    /\ prog = "control" /\ pc = "output_off"
    /\ \E ok \in BOOLEAN :
          IF ok
          THEN /\ trace' = Append(trace, Call("write", RELAY_OFF))
               /\ Goto("sleep_off")
          ELSE /\ trace' = trace
               /\ Raise("RuntimeError")
    /\ UNCHANGED <<args, RELAY_ON, RELAY_OFF, cycle_count, intrAt>>

CtlSleepOff ==
    /\ prog = "control" /\ pc = "sleep_off"
    /\ IF off_time < 0
       THEN /\ trace' = trace
            /\ Raise("ValueError")
       ELSE /\ trace' = Append(trace, Call("sleep", "NONE"))
            /\ Goto("count")
    /\ UNCHANGED <<args, RELAY_ON, RELAY_OFF, cycle_count, intrAt>>

CtlCount ==
    /\ prog = "control" /\ pc = "count"
    /\ cycle_count' = IF cycles > 0 THEN cycle_count + 1 ELSE cycle_count
    /\ Goto("loop")
    /\ UNCHANGED <<args, RELAY_ON, RELAY_OFF, trace, intrAt>>

CtlExceptHandler ==
    /\ prog = "control" /\ pc = "except"
    /\ Goto("finally_output")
    /\ UNCHANGED <<args, RELAY_ON, RELAY_OFF, cycle_count, trace, intrAt>>

\* Variant: a finally block that releases without writing RELAY_OFF.
CtlFinallyNoWrite ==
    /\ prog = "control" /\ pc = "finally_output"
    /\ Goto("finally_cleanup")
    /\ UNCHANGED <<args, RELAY_ON, RELAY_OFF, cycle_count, trace, intrAt>>

CtlFinallyOutput ==
    /\ prog = "control" /\ pc = "finally_output"
    /\ \E ok \in BOOLEAN :
          IF ok
          THEN /\ trace' = Append(trace, Call("write", RELAY_OFF))
               /\ Goto("finally_cleanup")
          ELSE /\ trace' = trace
               /\ Raise("RuntimeError")
    /\ UNCHANGED <<args, RELAY_ON, RELAY_OFF, cycle_count, intrAt>>

CtlFinallyCleanup ==
    /\ prog = "control" /\ pc = "finally_cleanup"
    /\ trace' = Append(trace, Call("cleanup", "NONE"))
    /\ Leave
    /\ UNCHANGED <<args, RELAY_ON, RELAY_OFF, cycle_count, intrAt>>

\* ------------------------------------------------- relay_switch.py: helpers
SwRelayOn(ah)  == IF ah THEN "HIGH" ELSE "LOW"
SwRelayOff(ah) == IF ah THEN "LOW" ELSE "HIGH"

\* Variant: both branches write RELAY_ON.
SwStateLevelAlwaysOn == RELAY_ON

\* if args.state == 'on': GPIO.output(.., RELAY_ON) else: GPIO.output(.., RELAY_OFF)
SwStateLevel == IF state = "on" THEN RELAY_ON ELSE RELAY_OFF

\* ------------------------------------------------- relay_switch.py: actions
SwParse ==
    /\ prog = "switch" /\ pc = "parse"
    /\ IF argsValid THEN Goto("polarity") ELSE Raise("SystemExit")
    /\ UNCHANGED <<args, RELAY_ON, RELAY_OFF, cycle_count, trace, intrAt>>

SwPolarity ==
    /\ prog = "switch" /\ pc = "polarity"
    /\ RELAY_ON' = SwRelayOn(active_high)
    /\ RELAY_OFF' = SwRelayOff(active_high)
    /\ Goto("setmode")
    /\ UNCHANGED <<args, cycle_count, trace, intrAt>>

SwSetmode ==
    /\ prog = "switch" /\ pc = "setmode"
    /\ trace' = Append(trace, Call("setmode", "NONE"))
    /\ Goto("setup")
    /\ UNCHANGED <<args, RELAY_ON, RELAY_OFF, cycle_count, intrAt>>

\* GPIO.setup(relay_pin, GPIO.OUT): no initial level is given.
SwSetup ==
    /\ prog = "switch" /\ pc = "setup"
    /\ \E ok \in BOOLEAN :
          IF ok
          THEN /\ trace' = Append(trace, Call("setup", "NONE"))
               /\ Goto("output")
          ELSE /\ trace' = trace
               /\ Raise("RuntimeError")
    /\ UNCHANGED <<args, RELAY_ON, RELAY_OFF, cycle_count, intrAt>>

SwOutput ==
    /\ prog = "switch" /\ pc = "output"
    /\ \E ok \in BOOLEAN :
          IF ok
          THEN /\ trace' = Append(trace, Call("write", SwStateLevel))
               /\ Goto("hold")
          ELSE /\ trace' = trace
               /\ Raise("RuntimeError")
    /\ UNCHANGED <<args, RELAY_ON, RELAY_OFF, cycle_count, intrAt>>

\* Variant: `if args.hold_time >= 0`, so that 0 holds for one sleep.
SwHoldZeroIsTimed ==
    /\ prog = "switch" /\ pc = "hold"
    /\ IF hold_time >= 0 THEN Goto("sleep_hold")
       ELSE Goto("finally_cleanup")
    /\ UNCHANGED <<args, RELAY_ON, RELAY_OFF, cycle_count, trace, intrAt>>

\* Variant: `if args.hold_time != 0`, so a negative value reaches time.sleep.
SwHoldNonZeroSleeps ==
    /\ prog = "switch" /\ pc = "hold"
    /\ IF hold_time # 0 THEN Goto("sleep_hold")
       ELSE Goto("sleep_forever")
    /\ UNCHANGED <<args, RELAY_ON, RELAY_OFF, cycle_count, trace, intrAt>>

\* if args.hold_time > 0: ... elif args.hold_time == 0: ...
SwHold ==
    /\ prog = "switch" /\ pc = "hold"
    /\ IF hold_time > 0 THEN Goto("sleep_hold")
       ELSE IF hold_time = 0 THEN Goto("sleep_forever")
       ELSE Goto("finally_cleanup")
    /\ UNCHANGED <<args, RELAY_ON, RELAY_OFF, cycle_count, trace, intrAt>>

SwSleepHold ==
    /\ prog = "switch" /\ pc = "sleep_hold"
    /\ trace' = Append(trace, Call("sleep", "NONE"))
    /\ Goto("finally_cleanup")
    /\ UNCHANGED <<args, RELAY_ON, RELAY_OFF, cycle_count, intrAt>>

\* while True: time.sleep(1)
SwSleepForever ==
    /\ prog = "switch" /\ pc = "sleep_forever"
    /\ Cardinality({i \in DOMAIN trace : trace[i].op = "sleep"}) < MaxIter
    /\ trace' = Append(trace, Call("sleep", "NONE"))
    /\ Goto("sleep_forever")
    /\ UNCHANGED <<args, RELAY_ON, RELAY_OFF, cycle_count, intrAt>>

SwExceptHandler ==
    /\ prog = "switch" /\ pc = "except"
    /\ Goto("finally_cleanup")
    /\ UNCHANGED <<args, RELAY_ON, RELAY_OFF, cycle_count, trace, intrAt>>

SwFinallyCleanup ==
    /\ prog = "switch" /\ pc = "finally_cleanup"
    /\ trace' = Append(trace, Call("cleanup", "NONE"))
    /\ Goto("finally_print")
    /\ UNCHANGED <<args, RELAY_ON, RELAY_OFF, cycle_count, intrAt>>

SwFinallyPrint ==
    /\ prog = "switch" /\ pc = "finally_print"
    /\ Leave
    /\ UNCHANGED <<args, RELAY_ON, RELAY_OFF, cycle_count, trace, intrAt>>

\* ------------------------------------------------------------ environment
\* SIGINT: KeyboardInterrupt is raised at the statement the program is at.
Interrupt ==
    /\ pc # "done"
    /\ intrAt' = Append(intrAt, pc)
    /\ Raise("KeyboardInterrupt")
    /\ UNCHANGED <<args, RELAY_ON, RELAY_OFF, cycle_count, trace>>

\* ---------------------------------------------------------- specification
Step ==
    \/ CtlParse \/ CtlPolarity \/ CtlSetmode \/ CtlSetup \/ CtlBanner
    \/ CtlInitCount \/ CtlLoop \/ CtlOutputOn \/ CtlSleepOn \/ CtlOutputOff
    \/ CtlSleepOff \/ CtlCount \/ CtlExceptHandler \/ CtlFinallyOutput
    \/ CtlFinallyCleanup
    \/ SwParse \/ SwPolarity \/ SwSetmode \/ SwSetup \/ SwOutput \/ SwHold
    \/ SwSleepHold \/ SwSleepForever \/ SwExceptHandler \/ SwFinallyCleanup
    \/ SwFinallyPrint

Next == Step \/ Interrupt

Spec == Init /\ [][Next]_vars

\* The interpreter keeps executing statements; SIGINT is never owed.
FairSpec == Spec /\ WF_vars(Step)


\* ------------------------------------------------ observations of a run
Ops(op)   == {i \in DOMAIN trace : trace[i].op = op}
NumOps(op) == Cardinality(Ops(op))
Acquired  == Ops("setup") # {}
Released  == Ops("cleanup") # {}
Held      == Acquired /\ ~Released
Done      == pc = "done"
SleepPcs  == {"sleep_on", "sleep_off", "sleep_hold", "sleep_forever"}

\* Events that set the pin's level: configuration and writes.
Drives    == Ops("setup") \cup Ops("write")
LastOf(S) == CHOOSE i \in S : \A j \in S : j <= i
\* Level last driven onto the pin ("NONE": no level was given yet).
Level     == IF Drives = {} THEN "NONE" ELSE trace[LastOf(Drives)].level
LastWriteLevel ==
    IF Ops("write") = {} THEN "NONE" ELSE trace[LastOf(Ops("write"))].level

\* The polarity mapping of the specification.
Complement(l) == IF l = "HIGH" THEN "LOW" ELSE "HIGH"
Resolve(s, ah) == IF s = "on"
                  THEN (IF ah THEN "HIGH" ELSE "LOW")
                  ELSE Complement(IF ah THEN "HIGH" ELSE "LOW")

\* The events of the guarded block (loop writes, state write, sleeps).
GuardedEvents == SelectSeq(trace, LAMBDA e : e.at \in TryPcs)

\* ------------------------------------------------------------------ C1
\* C1: cycle driver - the cleanup handler runs at most once; a release is
\* always the last recorded call and is immediately preceded by the
\* handler's write of the Off-level; and a run that left the guarded loop
\* normally or by an interrupt during the ON or OFF sleep (and met no driver
\* error) ends released, with the Off-level as its last pin write.
C1_CleanExit ==
    /\ pending = "none"
    /\ intrAt \in {<<>>, <<"sleep_on">>, <<"sleep_off">>}

C1_CleanupOffThenRelease ==
    prog = "control" =>
        /\ NumOps("cleanup") <= 1
        /\ WritesAt(trace, "finally_output") <= 1
        /\ \A i \in Ops("cleanup") :
              /\ i = Len(trace)
              /\ i > 1
              /\ trace[i - 1].op = "write"
              /\ trace[i - 1].at = "finally_output"
              /\ trace[i - 1].level = Resolve("off", active_high)
        /\ (Done /\ C1_CleanExit) =>
              /\ Released
              /\ LastWriteLevel = Resolve("off", active_high)

C1_Witness ==
    /\ prog = "control" /\ Done /\ Released
    /\ intrAt = <<"sleep_on">>
    /\ ~active_high
    /\ LastWriteLevel = "HIGH"

\* ------------------------------------------------------------------ C2
\* C2: one-shot driver - whenever the run has released the pin after
\* writing the requested state, the last recorded pin write is the
\* Off-level of the configured polarity.
C2_FinalWriteIsOff ==
    (prog = "switch" /\ Released /\ Ops("write") # {}) =>
        LastWriteLevel = Resolve("off", active_high)

\* ------------------------------------------------------------------ C3
\* C3: both drivers - an interrupt delivered while blocked in a sleep
\* aborts the sleep (nothing is recorded, control enters the handler), no
\* event of the guarded block follows it, and a run whose only interrupt
\* was that one, and whose driver did not fail, ends released with exit
\* status 0.
C3_SleepInterruptStep ==
    (pc \in SleepPcs /\ intrAt' # intrAt) =>
        /\ pc' = "except"
        /\ trace' = trace
        /\ pending' = "none"

C3_NoGuardedEventAfter ==
    (intrAt # <<>> /\ intrAt[1] \in SleepPcs) =>
        GuardedEvents' = GuardedEvents

C3_ExitZero ==
    (Done /\ Len(intrAt) = 1 /\ intrAt[1] \in SleepPcs
          /\ pending # "RuntimeError") =>
        /\ exitCode = 0
        /\ Released

C3_InterruptInSleep ==
    /\ [][C3_SleepInterruptStep]_vars
    /\ [][C3_NoGuardedEventAfter]_vars
    /\ []C3_ExitZero

C3_Witness ==
    /\ Done /\ prog = "switch" /\ hold_time = 0
    /\ intrAt = <<"sleep_forever">>
    /\ NumOps("sleep") > 0
    /\ exitCode = 0

\* ------------------------------------------------------------------ C4
\* C4: both drivers - in no terminated state was the pin acquired and not
\* released, whenever the run was ended by an interrupt (no driver or sleep
\* error is propagating).
C4_InterruptAlwaysReleases ==
    (Done /\ Acquired /\ intrAt # <<>>
          /\ pending \notin {"RuntimeError", "ValueError"}) =>
        Released


\* ------------------------------------------------------------------ C5
\* C5: cycle driver, cycles = N > 0 - the loop never starts more than N
\* repetitions; a run that meets no interrupt and no error ends on its own,
\* released, after exactly N On-writes, N Off-writes and 2N sleeps, in the
\* order (On-write, sleep, Off-write, sleep); and under fair execution every
\* such run terminates.
C5_Undisturbed == intrAt = <<>> /\ pending = "none"

C5_Counts ==
    (prog = "control" /\ argsValid /\ cycles > 0) =>
        /\ WritesAt(trace, "output_on") <= cycles
        /\ (pc \in CtlFinally \cup {"done"} /\ C5_Undisturbed) =>
              /\ WritesAt(trace, "output_on") = cycles
              /\ WritesAt(trace, "output_off") = cycles
              /\ NumOps("sleep") = 2 * cycles
              /\ cycle_count = cycles
              /\ Len(GuardedEvents) = 4 * cycles
              /\ \A k \in 0 .. (cycles - 1) :
                    /\ GuardedEvents[4 * k + 1].at = "output_on"
                    /\ GuardedEvents[4 * k + 2].at = "sleep_on"
                    /\ GuardedEvents[4 * k + 3].at = "output_off"
                    /\ GuardedEvents[4 * k + 4].at = "sleep_off"
        /\ (Done /\ C5_Undisturbed) => (Released /\ exitCode = 0)

C5_ExactlyNCycles ==
    /\ []C5_Counts
    /\ (prog = "control" /\ cycles > 0) ~> Done

C5_Witness ==
    /\ prog = "control" /\ cycles = MaxIter /\ Done /\ C5_Undisturbed
    /\ WritesAt(trace, "output_on") = MaxIter

\* ------------------------------------------------------------------ C6
\* C6: cycle driver, cycles = 0 - the counter is never incremented, and the
\* run is in the handler, the cleanup or the terminated state only if an
\* interrupt was delivered or an error is propagating.
C6_InfiniteUntilInterrupt ==
    (prog = "control" /\ cycles = 0) =>
        /\ cycle_count = 0
        /\ (pc \in CtlExcept \cup CtlFinally \cup {"done"}) =>
              (intrAt # <<>> \/ pending # "none")

C6_Witness ==
    /\ prog = "control" /\ cycles = 0 /\ Done
    /\ WritesAt(trace, "output_off") >= 1
    /\ intrAt = <<"sleep_off">>
    /\ pending = "none"

\* ------------------------------------------------------------------ C7
\* C7: polarity resolver - once a script has computed RELAY_ON and
\* RELAY_OFF, both are defined levels, RELAY_ON is High under active-high
\* and Low under active-low, RELAY_OFF is its complement, and they agree
\* with the mapping resolve(On, p) / resolve(Off, p) in both scripts.
C7_PolarityDone == pc = "setmode" \/ trace # <<>>

C7_ResolverComplement ==
    C7_PolarityDone =>
        /\ RELAY_ON \in {"HIGH", "LOW"}
        /\ RELAY_OFF \in {"HIGH", "LOW"}
        /\ RELAY_ON = (IF active_high THEN "HIGH" ELSE "LOW")
        /\ RELAY_OFF = Complement(RELAY_ON)
        /\ RELAY_ON # RELAY_OFF
        /\ RELAY_ON = Resolve("on", active_high)
        /\ RELAY_OFF = Resolve("off", active_high)

C7_Witness ==
    /\ prog = "switch" /\ ~active_high
    /\ RELAY_ON = "LOW" /\ RELAY_OFF = "HIGH"
    /\ Ops("write") # {}

\* ------------------------------------------------------------------ C8
\* C8: both drivers - while the pin is held, the level last driven onto it
\* equals resolve(intended state, polarity): the initial state before the
\* first iteration, On in the ON phase, Off in the OFF phase, and the
\* requested state in the one-shot driver from the moment the pin is held.
C8_Intended ==
    IF prog = "switch" THEN state
    ELSE IF pc \in {"sleep_on", "output_off"} THEN "on"
    ELSE IF pc \in {"sleep_off", "count"} THEN "off"
    ELSE IF WritesAt(trace, "output_on") = 0 THEN initial_state
    ELSE "off"

C8_Phases ==
    IF prog = "switch" THEN SwTry
    ELSE {"banner"} \cup CtlTry

C8_LevelIsIntended ==
    (Held /\ pc \in C8_Phases) => Level = Resolve(C8_Intended, active_high)

\* The same statement restricted to the cycle driver.
C8_CycleDriverOnly ==
    prog = "control" => C8_LevelIsIntended

\* ------------------------------------------------------------------ C9
\* C9: one-shot driver - no run performs more than one pin write; when the
\* driver decides on or is in its hold, exactly one write has been made,
\* its level is resolve(requested state, polarity), and every recorded
\* sleep comes after it; no write is recorded by a step taken in the hold.
C9_OneWrite ==
    prog = "switch" =>
        /\ NumOps("write") <= 1
        /\ \A i \in Ops("write") : \A j \in Ops("sleep") : i < j
        /\ (pc \in {"hold", "sleep_hold", "sleep_forever"}) =>
              /\ NumOps("write") = 1
              /\ LastWriteLevel = Resolve(state, active_high)

C9_NoWriteInHold ==
    (prog = "switch" /\ pc \in {"sleep_hold", "sleep_forever"}) =>
        Ops("write")' = Ops("write")

C9_SingleWriteBeforeHold ==
    /\ []C9_OneWrite
    /\ [][C9_NoWriteInHold]_vars

C9_Witness ==
    /\ prog = "switch" /\ pc = "sleep_forever"
    /\ state = "off" /\ ~active_high
    /\ NumOps("sleep") > 0
    /\ LastWriteLevel = "HIGH"

\* ------------------------------------------------------------------ C10
\* C10: one-shot driver - with holdTime > 0 an undisturbed run sleeps once
\* and ends released with status 0, and under fair execution it terminates;
\* with holdTime = 0 the driver leaves its blocking loop only by an
\* interrupt, reaches handler, cleanup or termination only after an
\* interrupt or error, and a run interrupted once in the loop ends released
\* with status 0.
C10_Undisturbed == intrAt = <<>> /\ pending = "none"

C10_Hold ==
    (prog = "switch" /\ argsValid) =>
        /\ (hold_time > 0 /\ Done /\ C10_Undisturbed) =>
              /\ NumOps("sleep") = 1
              /\ Released
              /\ exitCode = 0
        /\ (hold_time = 0 /\ pc \in SwExcept \cup SwFinally \cup {"done"}) =>
              (intrAt # <<>> \/ pending # "none")
        /\ (hold_time = 0 /\ Done /\ intrAt = <<"sleep_forever">>) =>
              (Released /\ exitCode = 0)

C10_LeaveLoopOnlyByInterrupt ==
    (prog = "switch" /\ pc = "sleep_forever" /\ pc' # "sleep_forever") =>
        (intrAt' # intrAt /\ pc' = "except")

C10_HoldBehaviour ==
    /\ []C10_Hold
    /\ [][C10_LeaveLoopOnlyByInterrupt]_vars
    /\ (prog = "switch" /\ argsValid /\ hold_time > 0) ~> Done

C10_Witness ==
    /\ prog = "switch" /\ hold_time = 0 /\ Done
    /\ intrAt = <<"sleep_forever">>
    /\ NumOps("sleep") = MaxIter
    /\ Released


\* ------------------------------------------------------------------ C11
\* C11: both drivers - a failure raised by a pin write or a sleep inside
\* the guarded block does not enter the interrupt handler: it stays
\* propagating through the finally block, no event of the guarded block and
\* no statement of the guarded block follows it, and the process ends with
\* a non-zero status.
C11_Errors == {"RuntimeError", "ValueError"}

C11_FailingPcs ==
    {"output_on", "sleep_on", "output_off", "sleep_off", "output",
     "sleep_hold", "sleep_forever"}

\* A step of a write or sleep of the guarded block that did not complete
\* and was not an interrupt.
C11_FailureStep ==
    /\ pc \in TryPcs \cap C11_FailingPcs
    /\ pc' # pc
    /\ intrAt' = intrAt
    /\ trace' = trace

C11_NotCaught ==
    C11_FailureStep =>
        /\ pending' \in C11_Errors
        /\ pc' = FinallyEntry
        /\ exitCode' = exitCode

C11_KeepsPropagating ==
    (pending \in C11_Errors) =>
        /\ pending' # "none"
        /\ pc' \notin TryPcs \cup ExceptPcs
        /\ GuardedEvents' = GuardedEvents

C11_NonZeroExit ==
    (Done /\ pending # "none") => exitCode > 0

C11_DriverFailureIsFatal ==
    /\ [][C11_NotCaught]_vars
    /\ [][C11_KeepsPropagating]_vars
    /\ []C11_NonZeroExit

C11_Witness ==
    /\ prog = "control" /\ Done
    /\ pending = "RuntimeError"
    /\ intrAt = <<>>
    /\ WritesAt(trace, "output_on") = 1
    /\ WritesAt(trace, "output_off") = 0
    /\ cycles = 0
    /\ exitCode = 1

\* ------------------------------------------------------------------ C12
\* C12: both drivers - when the command line is rejected, no call to the
\* driver (mode selection, configuration, write, release) and no sleep is
\* ever made, no statement after the parser runs, and the run ends with
\* the parser's non-zero status unless an interrupt ended it first.
C12_Rejected ==
    ~argsValid =>
        /\ trace = <<>>
        /\ pc \in {"parse", "done"}
        /\ (Done /\ intrAt = <<>>) => (pending = "SystemExit" /\ exitCode = 2)

C12_WitnessCtl ==
    /\ prog = "control" /\ ~argsValid /\ Done
    /\ intrAt = <<>> /\ exitCode = 2 /\ trace = <<>>


\* ------------------------------------------------------------------ C13
\* C13: cycle driver - initial_state decides only the level the pin is
\* configured with: the configured level is resolve(initial_state, p); the
\* first event of the loop is a write of the On-level; and the level of
\* every loop write is fixed by its statement and the polarity alone
\* (On-level at the On-write, Off-level at the Off-write), so the loop's
\* write sequence is the same for both initial states.
LoopWrites == SelectSeq(trace, LAMBDA e : e.op = "write" /\ e.at \in CtlTry)

C13_InitialStateOnlyConfigures ==
    prog = "control" =>
        /\ \A i \in Ops("setup") :
              trace[i].level = Resolve(initial_state, active_high)
        /\ GuardedEvents # <<>> =>
              /\ GuardedEvents[1].op = "write"
              /\ GuardedEvents[1].at = "output_on"
              /\ GuardedEvents[1].level = Resolve("on", active_high)
        /\ \A i \in DOMAIN LoopWrites :
              LoopWrites[i].level =
                  Resolve(IF LoopWrites[i].at = "output_on" THEN "on" ELSE "off",
                          active_high)
        /\ \A i \in DOMAIN LoopWrites :
              LoopWrites[i].at = (IF i % 2 = 1 THEN "output_on" ELSE "output_off")

C13_WitnessOn ==
    /\ prog = "control" /\ initial_state = "on" /\ active_high
    /\ Len(LoopWrites) = 2
    /\ LoopWrites[1].level = "HIGH"
    /\ LoopWrites[2].level = "LOW"
    /\ trace[LastOf(Ops("setup"))].level = "HIGH"

\* The same loop writes are reached from the other initial state.
C13_WitnessOff ==
    /\ prog = "control" /\ initial_state = "off" /\ active_high
    /\ Len(LoopWrites) = 2
    /\ LoopWrites[1].level = "HIGH"
    /\ LoopWrites[2].level = "LOW"
    /\ trace[LastOf(Ops("setup"))].level = "LOW"


\* ------------------------------------------------------------------ C14
\* C14: cycle driver - the pin writes of a run alternate On, Off, On, Off,
\* ... starting with On (an On-write is first or follows an Off-write of
\* the loop, an Off-write of the loop follows an On-write), the cleanup's
\* Off-write occurs at most once and only as the last write; the On-writes
\* exceed the loop's Off-writes by 0 or 1 at every point, by 1 throughout
\* the ON phase, and - in a run without a driver or sleep error - by 1 only
\* in the ON phase or after an interrupt delivered in the ON phase.
AllWrites == SelectSeq(trace, LAMBDA e : e.op = "write")

C14_OnPhase == {"sleep_on", "output_off"}

C14_Excess == WritesAt(trace, "output_on") - WritesAt(trace, "output_off")

\* No write or sleep has failed: an error would still be propagating, or
\* its propagation was cut short by an interrupt inside the finally block.
C14_NoError ==
    /\ pending \notin {"RuntimeError", "ValueError"}
    /\ (intrAt = <<>> \/ intrAt[1] \notin CtlFinally)

C14_Shape ==
    \A i \in DOMAIN AllWrites :
        /\ AllWrites[i].at \in {"output_on", "output_off", "finally_output"}
        /\ AllWrites[i].at = "output_on" =>
              /\ AllWrites[i].level = Resolve("on", active_high)
              /\ (i = 1 \/ AllWrites[i - 1].at = "output_off")
        /\ AllWrites[i].at = "output_off" =>
              /\ AllWrites[i].level = Resolve("off", active_high)
              /\ i > 1
              /\ AllWrites[i - 1].at = "output_on"
        /\ AllWrites[i].at = "finally_output" =>
              /\ AllWrites[i].level = Resolve("off", active_high)
              /\ i = Len(AllWrites)

C14_WriteTraceAlternates ==
    prog = "control" =>
        /\ C14_Shape
        /\ C14_Excess \in {0, 1}
        /\ pc \in C14_OnPhase => C14_Excess = 1
        /\ (C14_Excess = 1 /\ C14_NoError) =>
              \/ pc \in C14_OnPhase
              \/ (intrAt # <<>> /\ intrAt[1] \in C14_OnPhase)
        /\ (Done /\ Released) => WritesAt(trace, "finally_output") = 1

\* C14 as first stated: in every run the On-writes exceed the loop's
\* Off-writes by one only in the ON phase or after an interrupt delivered
\* in the ON phase.
C14_ExcessOnlyInOnPhase ==
    (prog = "control" /\ C14_Excess = 1) =>
        \/ pc \in C14_OnPhase
        \/ (intrAt # <<>> /\ intrAt[1] \in C14_OnPhase)

C14_Witness ==
    /\ prog = "control" /\ Done /\ Released
    /\ intrAt = <<"sleep_on">>
    /\ Len(AllWrites) = 4
    /\ C14_Excess = 1


\* ------------------------------------------------------------------ C15
\* C15: cycle driver, cycles < 0 - the loop body is never entered (no
\* statement of the body is reached, no On-write, no sleep, no counting);
\* the loop test leads straight to the cleanup; an undisturbed run ends
\* released with status 0 after exactly one pin write, the cleanup's
\* Off-write; and under fair execution every such run terminates, unlike
\* cycles = 0.
C15_Body == {"output_on", "sleep_on", "output_off", "sleep_off", "count"}

C15_NeverEntered ==
    (prog = "control" /\ cycles < 0) =>
        /\ pc \notin C15_Body
        /\ GuardedEvents = <<>>
        /\ cycle_count = 0
        /\ (Done /\ intrAt = <<>> /\ pending = "none" /\ argsValid) =>
              /\ Released
              /\ exitCode = 0
              /\ Len(AllWrites) = 1
              /\ AllWrites[1].at = "finally_output"
              /\ AllWrites[1].level = Resolve("off", active_high)

C15_LoopTestStep ==
    (prog = "control" /\ cycles < 0 /\ pc = "loop" /\ intrAt' = intrAt) =>
        pc' = "finally_output"

C15_NegativeCyclesSkipLoop ==
    /\ []C15_NeverEntered
    /\ [][C15_LoopTestStep]_vars
    /\ (prog = "control" /\ cycles < 0) ~> Done

C15_Witness ==
    /\ prog = "control" /\ cycles < 0 /\ Done /\ Released
    /\ intrAt = <<>> /\ pending = "none"
    /\ exitCode = 0
    /\ Len(AllWrites) = 1

\* ------------------------------------------------------------------ C16
\* C16: one-shot driver, hold_time < 0 - no sleep is ever made and neither
\* blocking statement is reached; after the state write the hold test leads
\* straight to the cleanup; an undisturbed run ends released with status 0
\* after its single write; and under fair execution every such run
\* terminates.
C16_NoBlocking ==
    (prog = "switch" /\ hold_time < 0) =>
        /\ pc \notin {"sleep_hold", "sleep_forever"}
        /\ NumOps("sleep") = 0
        /\ (Done /\ intrAt = <<>> /\ pending = "none" /\ argsValid) =>
              /\ Released
              /\ exitCode = 0
              /\ NumOps("write") = 1

C16_HoldTestStep ==
    (prog = "switch" /\ hold_time < 0 /\ pc = "hold" /\ intrAt' = intrAt) =>
        pc' = "finally_cleanup"

C16_NegativeHoldSkipsSleep ==
    /\ []C16_NoBlocking
    /\ [][C16_HoldTestStep]_vars
    /\ (prog = "switch" /\ hold_time < 0) ~> Done

C16_Witness ==
    /\ prog = "switch" /\ hold_time < 0 /\ Done /\ Released
    /\ intrAt = <<>> /\ pending = "none"
    /\ exitCode = 0
    /\ NumOps("write") = 1

=============================================================================
